---- MODULE Spec2Model ----
(***************************************************************************)
(* The REST handlers of social/views.py as a state machine over the       *)
(* persistent store (posts, likes, comments, profiles).  One action is    *)
(* one completed HTTP request; `last` is the request just served and the  *)
(* response it got.  The concurrent specification SpecRace splits the     *)
(* `likes` toggle at its two store round trips.                           *)
(*                                                                         *)
(* Framework behaviour relied on (rest_framework, django):                *)
(*  - check_permissions runs before the handler; an anonymous caller      *)
(*    refused by a permission class gets 401 (JWTAuthentication has an    *)
(*    authenticate header), an authenticated one 403;                     *)
(*  - get_object() looks the pk up in get_queryset() (404) and only then  *)
(*    runs the object permissions;                                        *)
(*  - an exception that is no APIException/Http404 is a 500;              *)
(*  - the handler of a detail route is called as handler(request, pk=..); *)
(*  - get()/get_object_or_404 raise MultipleObjectsReturned, which is no  *)
(*    Http404, when several rows match.                                   *)
(* What the model takes from social/models.py, social/serializers.py and  *)
(* social/permissions.py follows their documented design and is marked    *)
(* "as documented".                                                       *)
(* views.py:199 names the base class viewsets.ModelViewSetw; the model    *)
(* reads it as viewsets.ModelViewSet, like the four other view sets.      *)
(***************************************************************************)
EXTENDS Integers, Sequences, FiniteSets, TLC

\* ---------------------------------------------------------------- bounds
NUsers == 2
MaxPosts == 2
MaxLikes == 2
MaxComments == 2
NHashtags == 1
MaxQueryLen == 3

Anonymous == 0
Users == 1..NUsers
Requesters == Users \cup {Anonymous}
HashtagIds == 1..NHashtags
Contents == {"hi", "yo"}
PostPks == 1..(MaxPosts + 1)
LikePks == 1..(MaxLikes + 1)
CommentPks == 1..(MaxComments + 1)
ProfilePks == 1..(NUsers + 1)
\* the two concurrent `likes` requests of SpecRace
Procs == {"r1", "r2"}

VARIABLES posts, nextPost, likes, nextLike, comments, nextComment, profiles, last, race

store == <<posts, nextPost, likes, nextLike, comments, nextComment, profiles>>
vars == <<posts, nextPost, likes, nextLike, comments, nextComment, profiles, last, race>>

\* ------------------------------------------------------- request/response
\* data: the request's payload as a sequence of strings (the `content` value, or
\* the characters of the `hashtags` query); ids: the entities of the response
\* body; text: the message of the response body; before: the number of Like rows
\* of (post, user) when a `likes` request arrived (history).
Response(op, u, pk, data, status, text, ids, before) ==
    [op |-> op, user |-> u, pk |-> pk, data |-> data, status |-> status,
     text |-> text, ids |-> ids, before |-> before]

NoRequest == Response("none", Anonymous, 0, <<>>, 0, "", {}, 0)

Reply(op, u, pk, status) == Response(op, u, pk, <<>>, status, "", {}, 0)

ById(S, pk) == {e \in S : e.id = pk}

\* IsAuthorOrReadOnly.has_object_permission on an unsafe method (as documented).
IsAuthorOrReadOnly(obj, u) == obj.user = u

IdleRace == [p \in Procs |-> [pc |-> "idle", user |-> Anonymous, post |-> 0, like |-> 0, status |-> 0]]

\* ------------------------------------------------------------ PostViewSet
\* Post.objects ... on_delete=CASCADE of Comment.post and Like.post (as documented).
CascadePost(S, pk) == {e \in S : e.post # pk}

\* POST /posts/ : ModelViewSet.create; the author is the requester (as documented).
PostCreate(u, content, tags) ==
    /\ UNCHANGED <<likes, nextLike, comments, nextComment, profiles, race>>
    /\ IF u = Anonymous
       THEN /\ last' = Reply("post_create", u, 0, 401)
            /\ UNCHANGED <<posts, nextPost>>
       ELSE /\ nextPost <= MaxPosts
            /\ posts' = posts \cup {[id |-> nextPost, user |-> u, content |-> content, hashtags |-> tags]}
            /\ nextPost' = nextPost + 1
            /\ last' = Response("post_create", u, 0, <<content>>, 201, "", {nextPost}, 0)

\* PUT /posts/{pk}/ : ModelViewSet.update under (IsAuthenticatedOrReadOnly, IsAuthorOrReadOnly).
PostUpdate(u, pk, content, tags) ==
    /\ UNCHANGED <<nextPost, likes, nextLike, comments, nextComment, profiles, race>>
    /\ IF u = Anonymous
       THEN /\ last' = Reply("post_update", u, pk, 401)
            /\ UNCHANGED posts
       ELSE IF ById(posts, pk) = {}
       THEN /\ last' = Reply("post_update", u, pk, 404)
            /\ UNCHANGED posts
       ELSE IF \E p \in ById(posts, pk) : ~IsAuthorOrReadOnly(p, u)
       THEN /\ last' = Reply("post_update", u, pk, 403)
            /\ UNCHANGED posts
       ELSE /\ posts' = {IF p.id = pk THEN [p EXCEPT !.content = content, !.hashtags = tags] ELSE p : p \in posts}
            /\ last' = Response("post_update", u, pk, <<content>>, 200, "", {pk}, 0)

\* DELETE /posts/{pk}/ : ModelViewSet.destroy; the store cascades.
PostDelete(u, pk) ==
    /\ UNCHANGED <<nextPost, nextLike, nextComment, profiles, race>>
    /\ IF u = Anonymous
       THEN /\ last' = Reply("post_delete", u, pk, 401)
            /\ UNCHANGED <<posts, likes, comments>>
       ELSE IF ById(posts, pk) = {}
       THEN /\ last' = Reply("post_delete", u, pk, 404)
            /\ UNCHANGED <<posts, likes, comments>>
       ELSE IF \E p \in ById(posts, pk) : ~IsAuthorOrReadOnly(p, u)
       THEN /\ last' = Reply("post_delete", u, pk, 403)
            /\ UNCHANGED <<posts, likes, comments>>
       ELSE /\ posts' = posts \ ById(posts, pk)
            /\ likes' = CascadePost(likes, pk)
            /\ comments' = CascadePost(comments, pk)
            /\ last' = Reply("post_delete", u, pk, 204)

\* get_object_or_404(Like, post=post, user=user): the rows that match.
LikeLookup(S, pk, u) == {l \in S : l.post = pk /\ l.user = u}

\* like.delete()
LikeDeleteRow(S, id) == {l \in S : l.id # id}

\* Like.objects.create(post=post, user=user, is_liked=True)
LikeCreateRow(S, id, pk, u) == S \cup {[id |-> id, post |-> pk, user |-> u, is_liked |-> TRUE]}

\* POST /posts/{pk}/like : the toggle, as one completed request.
likes_action(u, pk) ==
    LET found == LikeLookup(likes, pk, u)
        n == Cardinality(found)
    IN
    /\ UNCHANGED <<posts, nextPost, comments, nextComment, profiles, race>>
    /\ IF u = Anonymous
       THEN /\ last' = Reply("likes", u, pk, 401)
            /\ UNCHANGED <<likes, nextLike>>
       ELSE IF ById(posts, pk) = {}
       THEN /\ last' = Reply("likes", u, pk, 404)
            /\ UNCHANGED <<likes, nextLike>>
       ELSE IF n > 1
       THEN \* MultipleObjectsReturned is not caught by `except Http404`
            /\ last' = Response("likes", u, pk, <<>>, 500, "", {}, n)
            /\ UNCHANGED <<likes, nextLike>>
       ELSE IF n = 1
       THEN /\ likes' = LikeDeleteRow(likes, (CHOOSE l \in found : TRUE).id)
            /\ UNCHANGED nextLike
            /\ last' = Response("likes", u, pk, <<>>, 200, "", {}, n)
       ELSE /\ nextLike <= MaxLikes
            /\ likes' = LikeCreateRow(likes, nextLike, pk, u)
            /\ nextLike' = nextLike + 1
            /\ last' = Response("likes", u, pk, <<>>, 200, "", {}, n)

\* ------------------------------------------------------------ LikeViewSet
\* POST /likes/ : ModelViewSet.create; the author is the requester, the post must
\* exist, and the store has no uniqueness constraint on (post, user) (as documented).
LikeCreate(u, post, flag) ==
    /\ UNCHANGED <<posts, nextPost, comments, nextComment, profiles, race>>
    /\ IF u = Anonymous
       THEN /\ last' = Reply("like_create", u, 0, 401)
            /\ UNCHANGED <<likes, nextLike>>
       ELSE IF ById(posts, post) = {}
       THEN /\ last' = Reply("like_create", u, 0, 400)
            /\ UNCHANGED <<likes, nextLike>>
       ELSE /\ nextLike <= MaxLikes
            /\ likes' = likes \cup {[id |-> nextLike, post |-> post, user |-> u, is_liked |-> flag]}
            /\ nextLike' = nextLike + 1
            /\ last' = Response("like_create", u, 0, <<>>, 201, "", {nextLike}, 0)

\* PUT /likes/{pk}/ : ModelViewSet.update under (IsAuthenticatedOrReadOnly, IsAuthorOrReadOnly).
LikeUpdate(u, pk, post, flag) ==
    /\ UNCHANGED <<posts, nextPost, nextLike, comments, nextComment, profiles, race>>
    /\ IF u = Anonymous
       THEN /\ last' = Reply("like_update", u, pk, 401)
            /\ UNCHANGED likes
       ELSE IF ById(likes, pk) = {}
       THEN /\ last' = Reply("like_update", u, pk, 404)
            /\ UNCHANGED likes
       ELSE IF \E l \in ById(likes, pk) : ~IsAuthorOrReadOnly(l, u)
       THEN /\ last' = Reply("like_update", u, pk, 403)
            /\ UNCHANGED likes
       ELSE IF ById(posts, post) = {}
       THEN /\ last' = Reply("like_update", u, pk, 400)
            /\ UNCHANGED likes
       ELSE /\ likes' = {IF l.id = pk THEN [l EXCEPT !.post = post, !.is_liked = flag] ELSE l : l \in likes}
            /\ last' = Response("like_update", u, pk, <<>>, 200, "", {pk}, 0)

\* DELETE /likes/{pk}/ : ModelViewSet.destroy.
LikeDelete(u, pk) ==
    /\ UNCHANGED <<posts, nextPost, nextLike, comments, nextComment, profiles, race>>
    /\ IF u = Anonymous
       THEN /\ last' = Reply("like_delete", u, pk, 401)
            /\ UNCHANGED likes
       ELSE IF ById(likes, pk) = {}
       THEN /\ last' = Reply("like_delete", u, pk, 404)
            /\ UNCHANGED likes
       ELSE IF \E l \in ById(likes, pk) : ~IsAuthorOrReadOnly(l, u)
       THEN /\ last' = Reply("like_delete", u, pk, 403)
            /\ UNCHANGED likes
       ELSE /\ likes' = LikeDeleteRow(likes, pk)
            /\ last' = Reply("like_delete", u, pk, 204)

\* The characters a `hashtags` query is made of here, and the queries.
Digits == {"1", "2"}
Alphabet == Digits \cup {"x", ","}
QueryStrings == UNION {[1..n -> Alphabet] : n \in 0..MaxQueryLen}

\* str.split(","): "" gives [""], "1," gives ["1", ""].
RECURSIVE Split(_)
Split(qs) ==
    IF \A i \in DOMAIN qs : qs[i] # ","
    THEN <<qs>>
    ELSE LET k == CHOOSE i \in DOMAIN qs : qs[i] = "," /\ \A j \in 1..(i - 1) : qs[j] # ","
         IN <<SubSeq(qs, 1, k - 1)>> \o Split(SubSeq(qs, k + 1, Len(qs)))

DigitValue(ch) == IF ch = "1" THEN 1 ELSE 2

\* int(str_id): a ValueError unless the token is a non-empty run of digits.
IntRaises(tok) == tok = <<>> \/ \E i \in DOMAIN tok : tok[i] \notin Digits

RECURSIVE IntOf(_)
IntOf(tok) ==
    IF tok = <<>> THEN 0
    ELSE 10 * IntOf(SubSeq(tok, 1, Len(tok) - 1)) + DigitValue(tok[Len(tok)])

\* PostViewSet._params_to_ints: the ids, or raised when one int() raises.
_params_to_ints(qs) ==
    LET toks == Split(qs)
    IN IF \E i \in DOMAIN toks : IntRaises(toks[i])
       THEN [raised |-> TRUE, ids |-> {}]
       ELSE [raised |-> FALSE, ids |-> {IntOf(toks[i]) : i \in DOMAIN toks}]

\* PostViewSet.get_queryset: an absent and an empty `hashtags` (both <<>> here) are
\* falsy and filter nothing; filter(hashtags__id__in=...).distinct() is a set of posts.
PostViewSet_get_queryset(qs) ==
    IF qs = <<>>
    THEN [raised |-> FALSE, rows |-> posts]
    ELSE LET parsed == _params_to_ints(qs)
         IN IF parsed.raised
            THEN [raised |-> TRUE, rows |-> {}]
            ELSE [raised |-> FALSE, rows |-> {p \in posts : p.hashtags \cap parsed.ids # {}}]

\* GET /posts/?hashtags=qs ; the ValueError of int() is no APIException: a 500.
PostList(u, qs) ==
    LET q == PostViewSet_get_queryset(qs)
    IN /\ UNCHANGED <<store, race>>
       /\ IF q.raised
          THEN last' = Response("post_list", u, 0, qs, 500, "", {}, 0)
          ELSE last' = Response("post_list", u, 0, qs, 200, "", {p.id : p \in q.rows}, 0)

\* POST /posts/{pk}/upload-image under [IsAuthorOrReadOnly]: is_valid raises a 400
\* on a bad image, and the handler returns serializer.errors with 400 otherwise;
\* the serializer is never saved.
upload_image(u, pk, valid) ==
    /\ UNCHANGED <<store, race>>
    /\ IF ById(posts, pk) = {}
       THEN last' = Reply("upload_image", u, pk, 404)
       ELSE IF \E p \in ById(posts, pk) : ~IsAuthorOrReadOnly(p, u)
       THEN last' = Reply("upload_image", u, pk, IF u = Anonymous THEN 401 ELSE 403)
       ELSE last' = Response("upload_image", u, pk, <<>>, 400, IF valid THEN "" ELSE "invalid image", {}, 0)

\* Comment.objects.create(post=post, user=user, content=request.data["content"])
CommentCreateRow(S, id, pk, u, c) == S \cup {[id |-> id, post |-> pk, user |-> u, content |-> c]}

\* add_comment with the comment credited to the post's author, not the requester.
add_comment_as_author(u, pk, data) ==
    /\ UNCHANGED <<posts, nextPost, likes, nextLike, profiles, race>>
    /\ IF u = Anonymous \/ ById(posts, pk) = {} \/ data = <<>>
       THEN /\ last' = Response("add_comment", u, pk, data, IF u = Anonymous THEN 401 ELSE IF data = <<>> THEN 500 ELSE 404, "", {}, 0)
            /\ UNCHANGED <<comments, nextComment>>
       ELSE /\ nextComment <= MaxComments
            /\ comments' = CommentCreateRow(comments, nextComment, pk, (CHOOSE p \in ById(posts, pk) : TRUE).user, data[1])
            /\ nextComment' = nextComment + 1
            /\ last' = Response("add_comment", u, pk, data, 200, "", {}, 0)

\* POST /posts/{pk}/add_comment ; data is <<c>> for a payload with content c and
\* <<>> for a payload without the key (request.data["content"] raises KeyError).
add_comment(u, pk, data) ==
    /\ UNCHANGED <<posts, nextPost, likes, nextLike, profiles, race>>
    /\ IF u = Anonymous
       THEN /\ last' = Response("add_comment", u, pk, data, 401, "", {}, 0)
            /\ UNCHANGED <<comments, nextComment>>
       ELSE IF ById(posts, pk) = {}
       THEN /\ last' = Response("add_comment", u, pk, data, 404, "", {}, 0)
            /\ UNCHANGED <<comments, nextComment>>
       ELSE IF data = <<>>
       THEN /\ last' = Response("add_comment", u, pk, data, 500, "", {}, 0)
            /\ UNCHANGED <<comments, nextComment>>
       ELSE /\ nextComment <= MaxComments
            /\ comments' = CommentCreateRow(comments, nextComment, pk, u, data[1])
            /\ nextComment' = nextComment + 1
            /\ last' = Response("add_comment", u, pk, data, 200, "", {}, 0)

\* --------------------------------------------------------- CommentViewSet
\* get_queryset without the filter on the requester.
CommentViewSet_get_queryset_all(u) == comments

\* CommentViewSet.get_queryset: queryset.filter(user=user), for every action of
\* the view set (list, retrieve, update, destroy).
CommentViewSet_get_queryset(u) == {c \in comments : c.user = u}

\* GET /comments/ ; filter(user=AnonymousUser) is a TypeError in the store layer.
CommentList(u) ==
    /\ UNCHANGED <<store, race>>
    /\ IF u = Anonymous
       THEN last' = Reply("comment_list", u, 0, 500)
       ELSE last' = Response("comment_list", u, 0, <<>>, 200, "", {c.id : c \in CommentViewSet_get_queryset(u)}, 0)

\* POST /comments/ : ModelViewSet.create; the author is the requester and the post
\* must exist (as documented).
CommentCreate(u, post, c) ==
    /\ UNCHANGED <<posts, nextPost, likes, nextLike, profiles, race>>
    /\ IF u = Anonymous
       THEN /\ last' = Reply("comment_create", u, 0, 401)
            /\ UNCHANGED <<comments, nextComment>>
       ELSE IF ById(posts, post) = {}
       THEN /\ last' = Reply("comment_create", u, 0, 400)
            /\ UNCHANGED <<comments, nextComment>>
       ELSE /\ nextComment <= MaxComments
            /\ comments' = CommentCreateRow(comments, nextComment, post, u, c)
            /\ nextComment' = nextComment + 1
            /\ last' = Response("comment_create", u, 0, <<c>>, 201, "", {nextComment}, 0)

\* PUT /comments/{pk}/ : get_object() searches get_queryset(), so a comment of
\* another author is not found before the object permission is asked.
CommentUpdate(u, pk, c) ==
    /\ UNCHANGED <<posts, nextPost, likes, nextLike, nextComment, profiles, race>>
    /\ IF u = Anonymous
       THEN /\ last' = Reply("comment_update", u, pk, 401)
            /\ UNCHANGED comments
       ELSE IF ById(CommentViewSet_get_queryset(u), pk) = {}
       THEN /\ last' = Reply("comment_update", u, pk, 404)
            /\ UNCHANGED comments
       ELSE IF \E x \in ById(CommentViewSet_get_queryset(u), pk) : ~IsAuthorOrReadOnly(x, u)
       THEN /\ last' = Reply("comment_update", u, pk, 403)
            /\ UNCHANGED comments
       ELSE /\ comments' = {IF x.id = pk THEN [x EXCEPT !.content = c] ELSE x : x \in comments}
            /\ last' = Response("comment_update", u, pk, <<c>>, 200, "", {pk}, 0)

\* DELETE /comments/{pk}/
CommentDelete(u, pk) ==
    /\ UNCHANGED <<posts, nextPost, likes, nextLike, nextComment, profiles, race>>
    /\ IF u = Anonymous
       THEN /\ last' = Reply("comment_delete", u, pk, 401)
            /\ UNCHANGED comments
       ELSE IF ById(CommentViewSet_get_queryset(u), pk) = {}
       THEN /\ last' = Reply("comment_delete", u, pk, 404)
            /\ UNCHANGED comments
       ELSE IF \E x \in ById(CommentViewSet_get_queryset(u), pk) : ~IsAuthorOrReadOnly(x, u)
       THEN /\ last' = Reply("comment_delete", u, pk, 403)
            /\ UNCHANGED comments
       ELSE /\ comments' = {x \in comments : x.id # pk}
            /\ last' = Reply("comment_delete", u, pk, 204)

\* --------------------------------------------------------- ProfileViewSet
\* The text fields of the payloads of POST /profiles/ (the follow list is drawn
\* from the ids of the profiles that exist).
ProfileFields ==
    {[first_name |-> "Ann", last_name |-> "Lee", bio |-> "bio", email |-> "ann@x"],
     [first_name |-> "Bob", last_name |-> "Ray", bio |-> "", email |-> "bob@x"]}

ProfileOf(u) == {p \in profiles : p.user = u}

\* Profile.objects.get_or_create(user=user): the row, and whether it was made.
\* A new row gets the next id; profiles are never deleted here.
get_or_create(u) ==
    IF ProfileOf(u) # {}
    THEN [profile |-> CHOOSE p \in ProfileOf(u) : TRUE, created |-> FALSE]
    ELSE [profile |-> [id |-> Cardinality(profiles) + 1, user |-> u, first_name |-> "",
                       last_name |-> "", bio |-> "", email |-> "", follow |-> {}],
          created |-> TRUE]

\* perform_create that fills the profile in whether or not it was just created.
perform_create_overwrite(u, fields, follow) ==
    LET got == get_or_create(u)
        profile == [got.profile EXCEPT !.first_name = fields.first_name,
                                       !.last_name = fields.last_name,
                                       !.bio = fields.bio,
                                       !.email = fields.email,
                                       !.follow = follow]
    IN [profiles |-> (profiles \ ProfileOf(u)) \cup {profile}, instance |-> profile]

\* ProfileViewSet.perform_create: the profiles after it, and serializer.instance.
perform_create(u, fields, follow) ==
    LET got == get_or_create(u)
        profile == IF got.created
                   THEN [got.profile EXCEPT !.first_name = fields.first_name,
                                            !.last_name = fields.last_name,
                                            !.bio = fields.bio,
                                            !.email = fields.email,
                                            !.follow = follow]
                   ELSE got.profile
    IN [profiles |-> (profiles \ ProfileOf(u)) \cup {profile}, instance |-> profile]

\* POST /profiles/ with a valid payload: ModelViewSet.create = is_valid,
\* perform_create, 201 with the instance.
ProfileCreate(u, fields, follow) ==
    /\ UNCHANGED <<posts, nextPost, likes, nextLike, comments, nextComment, race>>
    /\ IF u = Anonymous
       THEN /\ last' = Reply("profile_create", u, 0, 401)
            /\ UNCHANGED profiles
       ELSE LET done == perform_create(u, fields, follow)
            IN /\ profiles' = done.profiles
               /\ last' = Response("profile_create", u, 0, <<fields.first_name>>, 201, "", {done.instance.id}, 0)

\* follow_user with the guard evaluated before the target is added.
follow_user_guard_first(u, pk) ==
    /\ UNCHANGED <<posts, nextPost, likes, nextLike, comments, nextComment, race>>
    /\ IF u = Anonymous
       THEN /\ last' = Reply("follow_user", u, pk, 401)
            /\ UNCHANGED profiles
       ELSE IF ById(profiles, pk) = {} \/ pk \notin Users
       THEN /\ last' = Reply("follow_user", u, pk, 404)
            /\ UNCHANGED profiles
       ELSE LET profile == CHOOSE p \in ById(profiles, pk) : TRUE
                added == [profile EXCEPT !.follow = @ \cup {pk}]
            IN IF pk \notin profile.follow
               THEN /\ profiles' = (profiles \ {profile}) \cup {added}
                    /\ last' = Response("follow_user", u, pk, <<>>, 200, "User was followed successfully.", {}, 0)
               ELSE /\ UNCHANGED profiles
                    /\ last' = Response("follow_user", u, pk, <<>>, 400, "You cannot follow yourself.", {}, 0)

\* POST /profiles/{pk}/follow under [IsAuthenticated]. profile is the Profile pk,
\* user_to_follow the User pk; the follow relation holds ids (as documented), so
\* after add(user_to_follow) the membership test finds it. A Profile and a User
\* never compare equal, so `profile != user_to_follow` is true.
follow_user(u, pk) ==
    /\ UNCHANGED <<posts, nextPost, likes, nextLike, comments, nextComment, race>>
    /\ IF u = Anonymous
       THEN /\ last' = Reply("follow_user", u, pk, 401)
            /\ UNCHANGED profiles
       ELSE IF ById(profiles, pk) = {} \/ pk \notin Users
       THEN /\ last' = Reply("follow_user", u, pk, 404)
            /\ UNCHANGED profiles
       ELSE LET profile == CHOOSE p \in ById(profiles, pk) : TRUE
                added == [profile EXCEPT !.follow = @ \cup {pk}]
                differs == TRUE
            IN IF differs /\ pk \notin added.follow
               THEN /\ profiles' = (profiles \ {profile}) \cup {added}
                    /\ last' = Response("follow_user", u, pk, <<>>, 200, "User was followed successfully.", {}, 0)
               ELSE /\ profiles' = (profiles \ {profile}) \cup {added}
                    /\ last' = Response("follow_user", u, pk, <<>>, 400, "You cannot follow yourself.", {}, 0)

\* POST /profiles/{pk}/unfollow under [IsAuthenticated]. The route passes pk to the
\* handler, whose signature is (self, request): the call raises TypeError before
\* its body runs, and the request ends 500.
unfollow_user(u, pk) ==
    /\ UNCHANGED <<store, race>>
    /\ IF u = Anonymous
       THEN last' = Reply("unfollow_user", u, pk, 401)
       ELSE last' = Reply("unfollow_user", u, pk, 500)

\* ------------------------------------------- `likes`, one store access a step
\* post = self.get_object() under (IsAuthenticated,)
likes_begin(p, u, pk) ==
    /\ race[p].pc = "idle"
    /\ UNCHANGED <<store, last>>
    /\ IF ById(posts, pk) = {}
       THEN race' = [race EXCEPT ![p] = [pc |-> "done", user |-> u, post |-> pk, like |-> 0, status |-> 404]]
       ELSE race' = [race EXCEPT ![p] = [pc |-> "lookup", user |-> u, post |-> pk, like |-> 0, status |-> 0]]

\* like = get_object_or_404(Like, post=post, user=user)
likes_lookup(p) ==
    LET found == LikeLookup(likes, race[p].post, race[p].user)
    IN /\ race[p].pc = "lookup"
       /\ UNCHANGED <<store, last>>
       /\ IF Cardinality(found) > 1
          THEN race' = [race EXCEPT ![p].pc = "done", ![p].status = 500]
          ELSE IF found # {}
          THEN race' = [race EXCEPT ![p].pc = "delete", ![p].like = (CHOOSE l \in found : TRUE).id]
          ELSE race' = [race EXCEPT ![p].pc = "create"]

\* likes_write that creates a Like on both paths.
likes_write_always_create(p) ==
    /\ race[p].pc \in {"delete", "create"}
    /\ UNCHANGED <<posts, nextPost, comments, nextComment, profiles, last>>
    /\ race' = [race EXCEPT ![p].pc = "done", ![p].status = 200]
    /\ nextLike <= MaxLikes
    /\ likes' = LikeCreateRow(likes, nextLike, race[p].post, race[p].user)
    /\ nextLike' = nextLike + 1

\* like.delete(), or Like.objects.create(...) in the Http404 handler; then the 200.
\* Deleting a row another request already deleted deletes nothing.
likes_write(p) ==
    /\ race[p].pc \in {"delete", "create"}
    /\ UNCHANGED <<posts, nextPost, comments, nextComment, profiles, last>>
    /\ race' = [race EXCEPT ![p].pc = "done", ![p].status = 200]
    /\ IF race[p].pc = "delete"
       THEN /\ likes' = LikeDeleteRow(likes, race[p].like)
            /\ UNCHANGED nextLike
       ELSE /\ nextLike <= MaxLikes
            /\ likes' = LikeCreateRow(likes, nextLike, race[p].post, race[p].user)
            /\ nextLike' = nextLike + 1

\* --------------------------------------------------------- specifications
EmptyStore ==
    /\ posts = {} /\ nextPost = 1
    /\ likes = {} /\ nextLike = 1
    /\ comments = {} /\ nextComment = 1
    /\ profiles = {}

InitLike ==
    /\ EmptyStore
    /\ last = NoRequest
    /\ race = IdleRace

NextLike ==
    \/ \E u \in Requesters : PostCreate(u, "hi", {})
    \/ \E u \in Requesters, pk \in PostPks : PostDelete(u, pk)
    \/ \E u \in Requesters, pk \in PostPks : likes_action(u, pk)
    \/ \E u \in Requesters, p \in PostPks, f \in BOOLEAN : LikeCreate(u, p, f)
    \/ \E u \in Requesters, pk \in LikePks, p \in PostPks, f \in BOOLEAN : LikeUpdate(u, pk, p, f)
    \/ \E u \in Requesters, pk \in LikePks : LikeDelete(u, pk)

SpecLike == InitLike /\ [][NextLike]_vars

\* A store the requests above and ProfileViewSet's create lead to: user 1 posted,
\* user 2 liked the post, user 1 has a profile.
SeededStore ==
    /\ posts = {[id |-> 1, user |-> 1, content |-> "hi", hashtags |-> {}]} /\ nextPost = 2
    /\ likes = {[id |-> 1, post |-> 1, user |-> 2, is_liked |-> TRUE]} /\ nextLike = 2
    /\ comments = {} /\ nextComment = 1
    /\ profiles = {[id |-> 1, user |-> 1, first_name |-> "Ann", last_name |-> "Lee",
                    bio |-> "bio", email |-> "ann@x", follow |-> {}]}

InitComment ==
    /\ EmptyStore \/ SeededStore
    /\ last = NoRequest
    /\ race = IdleRace

NextComment ==
    \/ \E u \in Requesters : PostCreate(u, "hi", {})
    \/ \E u \in Requesters, pk \in PostPks : PostDelete(u, pk)
    \/ \E u \in Requesters, pk \in PostPks, d \in {<<c>> : c \in Contents} \cup {<<>>} : add_comment(u, pk, d)
    \/ \E u \in Requesters : CommentList(u)
    \/ \E u \in Requesters, p \in PostPks, c \in Contents : CommentCreate(u, p, c)
    \/ \E u \in Requesters, pk \in CommentPks, c \in Contents : CommentUpdate(u, pk, c)
    \/ \E u \in Requesters, pk \in CommentPks : CommentDelete(u, pk)

SpecComment == InitComment /\ [][NextComment]_vars

InitList ==
    /\ EmptyStore
    /\ last = NoRequest
    /\ race = IdleRace

NextList ==
    \/ \E u \in Requesters, t \in SUBSET HashtagIds : PostCreate(u, "hi", t)
    \/ \E u \in Requesters, pk \in PostPks, t \in SUBSET HashtagIds : PostUpdate(u, pk, "yo", t)
    \/ \E u \in Requesters, pk \in PostPks : PostDelete(u, pk)
    \/ \E u \in Requesters, qs \in QueryStrings : PostList(u, qs)
    \/ \E u \in Requesters, pk \in PostPks, v \in BOOLEAN : upload_image(u, pk, v)

SpecList == InitList /\ [][NextList]_vars

InitProfile ==
    /\ EmptyStore
    /\ last = NoRequest
    /\ race = IdleRace

NextProfile ==
    \/ \E u \in Requesters, f \in ProfileFields, fl \in SUBSET {p.id : p \in profiles} : ProfileCreate(u, f, fl)
    \/ \E u \in Requesters, pk \in ProfilePks : follow_user(u, pk)
    \/ \E u \in Requesters, pk \in ProfilePks : unfollow_user(u, pk)

SpecProfile == InitProfile /\ [][NextProfile]_vars

\* Two `likes` requests in flight over a store with one post and no Like.
InitRace ==
    /\ \E a \in Users : posts = {[id |-> 1, user |-> a, content |-> "hi", hashtags |-> {}]}
    /\ nextPost = 2
    /\ likes = {} /\ nextLike = 1
    /\ comments = {} /\ nextComment = 1
    /\ profiles = {}
    /\ last = NoRequest
    /\ race = IdleRace

NextRace ==
    \/ \E p \in Procs, u \in Users, pk \in PostPks : likes_begin(p, u, pk)
    \/ \E p \in Procs : likes_lookup(p)
    \/ \E p \in Procs : likes_write(p)

SpecRace == InitRace /\ [][NextRace]_vars

WriteOps == {"post_update", "post_delete", "comment_update", "comment_delete", "like_update", "like_delete"}

EntitiesOf(op) ==
    IF op \in {"post_update", "post_delete"} THEN posts
    ELSE IF op \in {"comment_update", "comment_delete"} THEN comments
    ELSE likes

\* C2: an update or delete of a Post, Comment or Like by an authenticated user who
\* is not its author is answered 403 and leaves the whole store unchanged.
NonAuthorWriteForbidden ==
    [][(/\ last'.op \in WriteOps
        /\ last'.user \in Users
        /\ \E e \in ById(EntitiesOf(last'.op), last'.pk) : e.user # last'.user)
       => (last'.status = 403 /\ store' = store)]_vars

\* C3: no user ever has two profiles, and a create by a user who has a profile
\* leaves every profile as it was and returns (201) the existing profile.
ProfileCreateIdempotent ==
    [][/\ \A a \in profiles', b \in profiles' : a.user = b.user => a = b
       /\ (last'.op = "profile_create" /\ ProfileOf(last'.user) # {})
          => (/\ profiles' = profiles
              /\ last'.status = 201
              /\ last'.ids = {p.id : p \in ProfileOf(last'.user)})]_vars

\* C3 witness: a create was answered with a profile whose first_name is not the
\* one the request supplied.
ProfileCreateIgnoredPayload ==
    /\ last.op = "profile_create"
    /\ last.status = 201
    /\ \E p \in profiles : p.id \in last.ids /\ p.user = last.user /\ p.first_name # last.data[1]

CommentListScoped ==
    (last.op = "comment_list" /\ last.user \in Users)
    => (/\ last.status = 200
        /\ last.ids \subseteq {c.id : c \in comments}
        /\ \A c \in comments : (c.id \in last.ids) <=> (c.user = last.user))

\* C5 witness: the requester and another user both commented on one post.
CommentListTwoAuthors ==
    /\ last.op = "comment_list"
    /\ last.status = 200
    /\ \E a \in comments, b \in comments :
         a.post = b.post /\ a.user = last.user /\ b.user # last.user /\ a.id \in last.ids

FollowTargetExists(pk) == ById(profiles, pk) # {} /\ pk \in Users

IsInteger(tok) == Len(tok) > 0 /\ \A i \in 1..Len(tok) : tok[i] \in {"1", "2"}

\* C7: a Post list whose (non-empty) hashtags value has a token that is not an
\* integer is answered with a 400-class error and no posts.
NonIntegerHashtagsRejected ==
    (/\ last.op = "post_list"
     /\ last.data # <<>>
     /\ \E i \in DOMAIN Split(last.data) : ~IsInteger(Split(last.data)[i]))
    => (last.status \in 400..499 /\ last.ids = {})

\* C8: add_comment by an authenticated user on an existing post with a content
\* value adds exactly one Comment (that post, that user, that content), changes
\* no other Comment and no Post, Like or Profile, and answers 200, body empty.
AddCommentFrame ==
    [][(/\ last'.op = "add_comment"
        /\ last'.user \in Users
        /\ ById(posts, last'.pk) # {}
        /\ last'.data # <<>>)
       => (/\ last'.status = 200 /\ last'.text = "" /\ last'.ids = {}
           /\ \E c \in comments' \ comments :
                /\ comments' = comments \cup {c}
                /\ c.id \notin {x.id : x \in comments}
                /\ c.post = last'.pk /\ c.user = last'.user /\ c.content = last'.data[1]
           /\ posts' = posts /\ likes' = likes /\ profiles' = profiles)]_vars

\* C8 witness: a comment was added by a user who is not the post's author, next
\* to another user's comment, in a store that holds a Like and a Profile.
AddCommentBesideOthers ==
    /\ last.op = "add_comment"
    /\ last.status = 200
    /\ \E p \in ById(posts, last.pk) : p.user # last.user
    /\ \E a \in comments, b \in comments : a.user = last.user /\ b.user # last.user /\ a.post = b.post
    /\ likes # {}
    /\ profiles # {}

\* C9: unfollow_user by an authenticated user on an existing profile removes the
\* requester from that profile's follow set, changes nothing else, answers 200.
UnfollowRemovesRequester ==
    [][(last'.op = "unfollow_user" /\ last'.user \in Users /\ ById(profiles, last'.pk) # {})
       => (/\ last'.status = 200
           /\ profiles' = {IF p.id = last'.pk THEN [p EXCEPT !.follow = @ \ {last'.user}] ELSE p : p \in profiles})]_vars

RaceSamePair == \A p \in Procs, q \in Procs : race[p].user = race[q].user /\ race[p].post = race[q].post

RaceFinished == \A p \in Procs : race[p].pc = "done" /\ race[p].status = 200

RaceLikes == LikeLookup(likes, race["r1"].post, race["r1"].user)

\* C10: when two `likes` requests for one (post, user), started with no Like, have
\* both answered, the pair has two Likes if both looked up before either wrote
\* (both found none) and no Like if one found the other's Like; never one.
RaceLeavesZeroOrTwo ==
    (RaceSamePair /\ RaceFinished)
    => \/ (\A p \in Procs : race[p].like = 0) /\ Cardinality(RaceLikes) = 2
       \/ (\E p \in Procs : race[p].like # 0) /\ (\E p \in Procs : race[p].like = 0) /\ RaceLikes = {}

\* C10 witness: both requests answered 200 and the pair has two Likes.
RaceLeavesTwo == RaceSamePair /\ RaceFinished /\ Cardinality(RaceLikes) = 2

\* C10, the other outcome: both requests answered 200 and the pair has no Like.
RaceLeavesZero == RaceSamePair /\ RaceFinished /\ RaceLikes = {}

====
